---- MODULE Spec2Model ----
(***************************************************************************)
(* A model of RoboCrab: the CrabNet network of src/crabnet/kingcrab.py     *)
(* (FractionalEncoder, Embedder, Encoder, CrabNet) and the batch           *)
(* featurizer of src/submit_robofeat.py.                                   *)
(*                                                                         *)
(* Tensors of learned floating-point values are modelled symbolically: a   *)
(* value is a record with a tag t naming the operation that produced it    *)
(* and the values it was computed from, so that two values are equal only  *)
(* when they were computed the same way from the same inputs.  Masks,      *)
(* counts, shapes and table indices are computed exactly.                  *)
(***************************************************************************)
EXTENDS Integers, Sequences, FiniteSets, TLC

VARIABLES
    fe_resolution,  \* FractionalEncoder.resolution
    fe_log10,       \* FractionalEncoder.log10
    fe_x,           \* the caller's tensor x (one entry)
    fe_out,         \* what forward(x) did: not called, a table row, or an error
    cifstr_list,    \* robofeaturize: the argument
    features,       \* robofeaturize: the list being filled
    robo_i,         \* robofeaturize: loop index i (0-based)
    robo_pc,        \* robofeaturize: "loop", "returned" or "raised"
    out_dims,       \* CrabNet.out_dims
    training,       \* nn.Module.training of the CrabNet and its submodules
    batch,          \* the caller's input tensors, one row per compound
    res,            \* what the last call of CrabNet.forward computed
    prev_output,    \* the caller's copy of the previous call's output rows,
                    \* kept for the compounds whose inputs it has not changed
    prev_call       \* the mode and the dropout draw of the previous call

fe_vars == <<fe_resolution, fe_log10, fe_x, fe_out>>
robo_vars == <<cifstr_list, features, robo_i, robo_pc>>
crab_vars == <<out_dims, training, batch, res, prev_output, prev_call>>
vars == <<fe_vars, robo_vars, crab_vars>>

(***************************************************************************)
(* Bounds of the model.                                                    *)
(***************************************************************************)
MaxRes == 5      \* resolutions 1..MaxRes
MaxExp == 21     \* inputs 2^e, e in -MaxExp..MaxExp
MaxLen == 3      \* lists of at most MaxLen CIF strings
MaxElems == 2    \* element slots per compound, 1..MaxElems
MaxOutDims == 4  \* out_dims in 1..MaxOutDims

(***************************************************************************)
(* Rational arithmetic: a rational is <<n, d>> with d > 0.                 *)
(***************************************************************************)
Pow2(e) == 2 ^ e

FloorDiv(n, d) == n \div d
CeilDiv(n, d) == -((-n) \div d)
Abs(n) == IF n < 0 THEN -n ELSE n

\* torch.round with the half case rounded up instead of to even.
RoundHalfUp(n, d) == FloorDiv(2 * n + d, 2 * d)

\* torch.round: round to the nearest integer, halves to the even one.
TorchRound(n, d) ==
    LET f == FloorDiv(n, d)
        r == n - f * d
    IN  IF 2 * r < d THEN f
        ELSE IF 2 * r > d THEN f + 1
        ELSE IF f % 2 = 0 THEN f ELSE f + 1

(***************************************************************************)
(* FractionalEncoder.forward.  An input is [t |-> "quarter", v |-> q],     *)
(* the value q / (4 R), or [t |-> "pow2", v |-> e], the value 2^e.  The    *)
(* tensor entry is carried as the rational x * R, or as "nan".             *)
(***************************************************************************)
LogScaleDen == 400   \* 0.0025 = 1 / 400

NaN == [t |-> "nan", n |-> 0, d |-> 1]
Rat(n, d) == [t |-> "rat", n |-> n, d |-> d]

\* x * R for the input as given ([t |-> "ratio", v |-> n, d |-> d] is n/d).
TimesRes(x, R) ==
    IF x.t = "quarter" THEN Rat(x.v, 4)
    ELSE IF x.t = "ratio" THEN Rat(x.v * R, x.d)
    ELSE IF x.v >= 0 THEN Rat(R * Pow2(x.v), 1)
    ELSE Rat(R, Pow2(-x.v))

IsZero(x) == x.t = "quarter" /\ x.v = 0
IsNegative(x) == x.t = "quarter" /\ x.v < 0
\* log2 of a positive input, defined where it is an integer.
HasLog2(x) == x.t = "pow2" \/ IsZero(x) \/ IsNegative(x)

\* x = 0.0025 * log2(x) ** 2; x[x > 1] = 1   (as x * R)
LogRemap(x, R) ==
    IF IsNegative(x) THEN NaN                      \* log2 of a negative
    ELSE IF IsZero(x) THEN Rat(R, 1)                \* (-inf)^2 = inf > 1
    ELSE IF x.v * x.v > LogScaleDen THEN Rat(R, 1)  \* x > 1
    ELSE Rat(x.v * x.v * R, LogScaleDen)

\* The floor without effect: the line x[x < 1/R] = 1/R left out.
NoFloorToRes(y) == y

\* x[x < 1 / resolution] = 1 / resolution   (as x * R; false on nan)
FloorToRes(y) ==
    IF y.t = "rat" /\ y.n < y.d THEN Rat(1, 1) ELSE y

\* torch.round(x * resolution)
RoundScaled(y) == TorchRound(y.n, y.d)

\* What .to(dtype=torch.long) can make of nan, less 1: 0 - 1, or the
\* smallest int64 - 1, which wraps to the largest (written here as
\* the largest integer of the checker; every index >= R behaves alike).
NanIndices == {-1, 2147483647}

\* The indices forward can compute for input x.
FracIdx(x, R, log10) ==
    LET y == FloorToRes(IF log10 THEN LogRemap(x, R) ELSE TimesRes(x, R))
    IN  IF y.t = "nan" THEN NanIndices ELSE {RoundScaled(y) - 1}

\* self.pe[frac_idx]: row frac_idx of the R-row table, negative indices
\* counted from the end, IndexError outside -R..R-1.
Lookup(idx, R) ==
    IF idx >= R \/ idx < -R THEN [t |-> "IndexError", idx |-> idx, row |-> -1]
    ELSE [t |-> "row", idx |-> idx, row |-> IF idx < 0 THEN idx + R ELSE idx]

NotCalled == [t |-> "none", idx |-> -1, row |-> -1]

Quarters(R) == {[t |-> "quarter", v |-> q] : q \in -4 .. (4 * R + 8)}
Powers == {[t |-> "pow2", v |-> e] : e \in -MaxExp .. MaxExp}

FracInit ==
    /\ fe_resolution \in 1 .. MaxRes
    /\ fe_log10 \in BOOLEAN
    /\ fe_x \in {x \in Quarters(fe_resolution) \cup Powers : fe_log10 => HasLog2(x)}
    /\ fe_out = NotCalled

\* out = FractionalEncoder.forward(x); x itself is cloned, not written.
FracForward ==
    /\ fe_out = NotCalled
    /\ \E idx \in FracIdx(fe_x, fe_resolution, fe_log10) :
           fe_out' = Lookup(idx, fe_resolution)
    /\ UNCHANGED <<fe_resolution, fe_log10, fe_x>>

(***************************************************************************)
(* robofeaturize.  A CIF string is "ok", "bad_cif" (Structure.from_str     *)
(* raises on it) or "bad_feat" (featurizer.featurize raises on it).        *)
(***************************************************************************)
CifKinds == {"ok", "bad_cif", "bad_feat"}
Failed == <<"failed">>
None == <<"None">>
Featurized == <<"features">>

RECURSIVE SeqsUpTo(_, _)
SeqsUpTo(S, n) ==
    IF n = 0 THEN {<<>>}
    ELSE LET prev == SeqsUpTo(S, n - 1)
         IN  prev \cup {Append(s, x) : s \in {p \in prev : Len(p) = n - 1}, x \in S}

RoboInit ==
    /\ cifstr_list \in SeqsUpTo(CifKinds, MaxLen)
    /\ features = [k \in 1 .. Len(cifstr_list) |-> None]
    /\ robo_i = 0
    /\ robo_pc = "loop"

\* Structure.from_str(cifstr, fmt="cif") raises
ParseRaises(cifstr) == cifstr = "bad_cif"
\* featurizer.featurize(structure) raises
FeaturizeRaises(cifstr) == cifstr = "bad_feat"

\* from_str inside the try block: a parse error is caught as well.
ParseEscapesCaught(cifstr) == FALSE

\* Whether an error of from_str leaves the loop: it is called before try.
ParseEscapes(cifstr) == ParseRaises(cifstr)

\* One pass of the for loop.
RoboIter ==
    /\ robo_pc = "loop"
    /\ robo_i < Len(cifstr_list)
    /\ LET cifstr == cifstr_list[robo_i + 1]
       IN  \/ /\ ParseEscapes(cifstr)
              /\ robo_pc' = "raised"
              /\ UNCHANGED <<features, robo_i>>
           \/ /\ ~ParseEscapes(cifstr)
              /\ features' = [features EXCEPT ![robo_i + 1] =
                     IF ParseRaises(cifstr) \/ FeaturizeRaises(cifstr)
                     THEN Failed ELSE Featurized]
              /\ robo_i' = robo_i + 1
              /\ UNCHANGED robo_pc
    /\ UNCHANGED cifstr_list

\* return features
RoboReturn ==
    /\ robo_pc = "loop"
    /\ robo_i = Len(cifstr_list)
    /\ robo_pc' = "returned"
    /\ UNCHANGED <<cifstr_list, features, robo_i>>

(***************************************************************************)
(* Embedder.forward.  A row of the element table cbfv is [t |-> "mat2vec", *)
(* v |-> i]; a row whose entries all equal v is [t |-> "const", v |-> v].  *)
(* Every slot of the sequence carries, beside its row, the slot it was     *)
(* made from: <<kind, position>>.                                          *)
(***************************************************************************)
Const(v) == [t |-> "const", v |-> v]

\* self.cbfv(src): row 0 is zeros, row i the features of element i.
Cbfv(idx) == IF idx = 0 THEN Const(0) ELSE [t |-> "mat2vec", v |-> idx]

\* self.sbfv(bool_src): row 0 is zeros, every other row is ones.
Sbfv(idx) == IF idx = 0 THEN Const(0) ELSE Const(1)

Tagged(kind, seq, F(_)) ==
    [j \in 1 .. Len(seq) |-> [slot |-> <<kind, j>>, v |-> F(seq[j])]]

\* feats = torch.cat([mat2vec_emb, cat_feat, bool_emb, float_feat], dim=1)
CatFeats(e, c, b, f) == e \o c \o b \o f

\* x_emb = fc_mat2vec(cat([mat2vec_emb, cat_feat, bool_emb, float_feat]))
\* for one compound c: the rows the projection is applied to, in order.
EmbedderForward(c) ==
    CatFeats(Tagged("elem", c.src, Cbfv),
             Tagged("cat", c.cat_feat, Const),
             Tagged("bool", c.bool_src, Sbfv),
             Tagged("num", c.float_feat, Const))

(***************************************************************************)
(* Encoder.forward for one compound.  A fractional weight is the rational  *)
(* [n |-> n, d |-> d]; the caller's frac entries are n / FracDen.          *)
(***************************************************************************)
EncoderResolution == 5000
Fractional == FALSE          \* Encoder(frac=False)
ZeroVec == [t |-> "zeros"]
NanVec == [t |-> "nan"]

\* frac = torch.cat([frac, ones / nrobo_feat], dim=1)
ExtendFrac(frac, den, nrobo_feat) ==
    [j \in 1 .. Len(frac) |-> [n |-> frac[j], d |-> den]]
        \o [j \in 1 .. nrobo_feat |-> [n |-> 1, d |-> nrobo_feat]]

\* mask = matmul(frac, frac^T); mask[mask != 0] = 1   (entry i, j)
PresenceMask(w, i, j) == IF w[i].n * w[j].n # 0 THEN 1 ELSE 0

\* A key mask that marks nothing.
SrcMaskNone(w) == [j \in 1 .. Len(w) |-> FALSE]

\* src_mask = mask[:, 0] != 1
SrcMask(w) == [j \in 1 .. Len(w) |-> PresenceMask(w, 1, j) # 1] \o <<>>

\* hmask = mask[:, :, 0:1]
HMask(w) == [i \in 1 .. Len(w) |-> PresenceMask(w, i, 1)] \o <<>>

\* self.pe(frac): the row of the linear table for weight w.
PeRow(w) ==
    LET i == CHOOSE i \in FracIdx([t |-> "ratio", v |-> w.n, d |-> w.d],
                                  EncoderResolution, FALSE) : TRUE
    IN  Lookup(i, EncoderResolution).row

\* x_src = x + pe + ple for one slot: the embedding row (scaled by
\* 2 ** emb_scaler), the linear table's row, and the log table's row, which
\* is a function of the weight.
XSrc(x, w) ==
    [j \in 1 .. Len(x) |-> [x |-> x[j].v, pe |-> PeRow(w[j]), ple |-> w[j]]] \o <<>>

\* What Encoder.forward holds of one compound before attention: the slots
\* of x, the extended frac, x_src, src_mask and hmask.
EncoderMasks(x, w) ==
    [slots |-> [i \in 1 .. Len(x) |-> x[i].slot], w |-> w, xs |-> XSrc(x, w),
     src_mask |-> SrcMask(w), hmask |-> HMask(w)]

FracDen == 2

\* nrobo_feat = x.shape[1] - src.shape[1]; frac = cat([frac, ones / nrobo_feat])
EncoderWeigh(c, x) == EncoderMasks(x, ExtendFrac(c.frac, FracDen, Len(x) - Len(c.src)))

\* x = self.embed(src, cat_feat, bool_src, float_feat) * 2 ** self.emb_scaler
EncoderEmbed(c) == EncoderWeigh(c, EmbedderForward(c))

\* The slots of x that mask m does not mark.
Visible(x, m) ==
    SelectSeq([j \in 1 .. Len(x) |-> [k |-> x[j], on |-> ~m[j]]], LAMBDA e : e.on)

VisibleOf(pb) == Visible(pb.xs, pb.src_mask)

\* The keys with the batch axis taken for the slot axis (x_src not
\* transposed): the slots of every compound.
AttentionKeysBatch(p, b) ==
    LET others == DOMAIN p \ {b}
    IN  IF others = {} THEN VisibleOf(p[b])
        ELSE VisibleOf(p[b]) \o VisibleOf(p[CHOOSE c \in others : TRUE])

\* The keys compound b's queries attend to: the slots of compound b that
\* src_key_padding_mask does not mark (x_src is (slots, batch, d_model)).
AttentionKeys(p, b) == VisibleOf(p[b])

\* Whether the dropout layers draw: F.dropout(.., training=True) always.
DropoutAlways(mode) == TRUE

\* Whether the dropout layers of the attention stack draw in this mode.
DropoutActive(mode) == mode

DropMasks == {"m1", "m2"}        \* the dropout masks a call can draw
NoNoise == "none"

\* self.transformer_encoder(x_src, src_key_padding_mask=src_mask) for the
\* slots xs of one compound, each row attending from its own slot q to
\* keys; softmax over no key at all is nan.
TransformerEncoder(xs, keys, noise) ==
    [i \in 1 .. Len(xs) |->
        IF keys = <<>> THEN NanVec
        ELSE [t |-> "attn", q |-> xs[i], noise |-> noise]]

\* if self.fractional: x = x * frac
Weighted(att, w) ==
    IF Fractional
    THEN [i \in 1 .. Len(att) |-> [t |-> "weighted", of |-> att[i], by |-> w[i]]]
    ELSE att

\* masked_fill without effect.
FillHMaskNone(x, hmask) == x

\* x = x.masked_fill(hmask == 0, 0)
FillHMask(x, hmask) ==
    [i \in 1 .. Len(x) |-> IF hmask[i] = 0 THEN ZeroVec ELSE x[i]]

\* What Encoder.forward returns for one compound, with its masks and keys.
EncoderReturn(pb, keys, noise) ==
    [slots |-> pb.slots, src_mask |-> pb.src_mask, hmask |-> pb.hmask,
     keys |-> keys,
     enc |-> FillHMask(Weighted(TransformerEncoder(pb.xs, keys, noise), pb.w),
                       pb.hmask)]

EncoderAttend(p, noise) ==
    [b \in DOMAIN p |-> EncoderReturn(p[b], AttentionKeys(p, b), noise)]

\* Encoder.forward over the batch.
EncoderForward(inputs, noise) ==
    EncoderAttend([b \in DOMAIN inputs |-> EncoderEmbed(inputs[b])], noise)

(***************************************************************************)
(* CrabNet.forward.                                                        *)
(***************************************************************************)
DefaultOutDims == 3
ZeroOut == [t |-> "zero"]
NanOut == [t |-> "nan"]

\* torch.cat with bmask ahead of cmask.
CatMasksSwapped(e, c, b, f) == e \o b \o c \o f

\* mask = torch.cat([emask, cmask, bmask, fmask], dim=1)
CatMasks(e, c, b, f) == e \o c \o b \o f

\* The combined mask with cmask = cat_feat == 0 in place of zeros.
CrabMaskCatZero(c) ==
    CatMasks(Tagged("elem", c.src, LAMBDA i : i = 0),
             Tagged("cat", c.cat_feat, LAMBDA v : v = 0),
             Tagged("bool", c.bool_src, LAMBDA i : i = 0),
             Tagged("num", c.float_feat, LAMBDA v : FALSE))

\* The combined mask of compound c: emask = src == 0, cmask = zeros,
\* bmask = bool_src == 0, fmask = zeros.
CrabMask(c) ==
    CatMasks(Tagged("elem", c.src, LAMBDA i : i = 0),
             Tagged("cat", c.cat_feat, LAMBDA v : FALSE),
             Tagged("bool", c.bool_src, LAMBDA i : i = 0),
             Tagged("num", c.float_feat, LAMBDA v : FALSE))

\* self.output_nn(output): the head's output for slot k, a function of the
\* encoder's row k.
OutputNN(enc, k) == [t |-> "output_nn", slot |-> k]

\* masked_fill with the mask inverted.
MaskedFillInverted(head, mask) ==
    [k \in 1 .. Len(head) |-> IF mask[k].v THEN head[k] ELSE ZeroOut]

\* output.masked_fill(mask, 0)
MaskedFill(head, mask) ==
    [k \in 1 .. Len(head) |-> IF mask[k].v THEN ZeroOut ELSE head[k]]

\* output.sum(dim=1): the sum of the rows, zeros dropped.
SumRows(rows) == SelectSeq(rows, LAMBDA r : r # ZeroOut)

\* A denominator that counts every slot.
DenominatorAll(mask) == Len(mask)

\* (~mask).sum(dim=1)
Denominator(mask) == Cardinality({k \in 1 .. Len(mask) : ~mask[k].v})

\* sum / count, 0 / 0 being nan
Divide(s, n) == IF n = 0 THEN NanOut ELSE [t |-> "div", terms |-> s, den |-> n]

\* torch.chunk with the chunk size rounded down.
ChunkSizesFloor(n) ==
    LET size == n \div 2
    IN  IF n <= size \/ size = 0 THEN <<n>> ELSE <<size, n - size>>

\* torch.chunk(2, dim=-1) of n columns: the sizes of the chunks
ChunkSizes(n) ==
    LET size == (n + 1) \div 2
    IN  IF n <= size THEN <<n>> ELSE <<size, n - size>>

\* output, logits = output.chunk(2, dim=-1); probability = ones_like(output);
\* probability[:, :logits.shape[-1]] = sigmoid(logits); output * probability
\* Column c of the result is avg[val] * sigmoid(avg[logit]), or avg[val] * 1
\* where logit is 0.
ColumnsOf(sizes) ==
    IF Len(sizes) < 2 THEN <<>>
    ELSE [c \in 1 .. sizes[1] |->
             [val |-> c, logit |-> IF c <= sizes[2] THEN sizes[1] + c ELSE 0]]

Columns(od) == ColumnsOf(ChunkSizes(od))

NotRun == [called |-> FALSE]
NoCall == [called |-> FALSE, mode |-> FALSE, noise |-> NoNoise]

Heads(enc) == [k \in 1 .. Len(enc) |-> OutputNN(enc, k)]

RowAverage(e, mask, masked, denom) ==
    [slots |-> e.slots, src_mask |-> e.src_mask, hmask |-> e.hmask,
     keys |-> e.keys, enc |-> e.enc, mask |-> mask, masked |-> masked,
     denom |-> denom, avg |-> Divide(SumRows(masked), denom)]

\* For one compound: output_nn, masked_fill, sum and division.
Row(e, mask) ==
    RowAverage(e, mask, MaskedFill(Heads(e.enc), mask), Denominator(mask))

\* The chunks unpacked, the probability applied, the tensor returned.
Returned(rows, chunks, cols, mode, noise) ==
    [called |-> TRUE, mode |-> mode, noise |-> noise, rows |-> rows,
     error |-> IF Len(chunks) < 2 THEN "ValueError" ELSE "",
     cols |-> IF Len(chunks) < 2 THEN <<>> ELSE cols,
     shape |-> IF Len(chunks) < 2 THEN <<>>
               ELSE <<Cardinality(DOMAIN rows), Len(cols)>>]

Aggregate(inputs, enc, od, mode, noise) ==
    Returned([b \in DOMAIN inputs |-> Row(enc[b], CrabMask(inputs[b]))],
             ChunkSizes(od), Columns(od), mode, noise)

\* CrabNet.forward(src, frac, cat_feat, bool_src, float_feat).  Per compound:
\* what the encoder returned, the combined mask, the head's rows after
\* masked_fill, the denominator and the average; then the columns and the
\* shape of the tensor returned, or the error raised.  mode is self.training
\* and noise the dropout mask drawn.
CrabForward(inputs, od, mode, noise) ==
    Aggregate(inputs, EncoderForward(inputs, noise), od, mode, noise)

\* Row b of the tensor a call returned: column c is avg[val] times the
\* sigmoid of avg[logit], avg being the masked mean over the head's rows of
\* the encoder's rows enc, each an attention from its slot over keys.
OutputRows(r) ==
    IF r.error # "" THEN [b \in {} |-> 0]
    ELSE [b \in DOMAIN r.rows |->
             [keys |-> r.rows[b].keys, enc |-> r.rows[b].enc,
              avg |-> r.rows[b].avg, cols |-> r.cols]]

\* The state of the parts a specification leaves alone.
FracIdle ==
    /\ fe_resolution = 1
    /\ fe_log10 = FALSE
    /\ fe_x = [t |-> "quarter", v |-> 4]
    /\ fe_out = NotCalled

RoboIdle ==
    /\ cifstr_list = <<>>
    /\ features = <<>>
    /\ robo_i = 0
    /\ robo_pc = "idle"

(***************************************************************************)
(* The caller: a model as constructed, a batch of two compounds, calls of  *)
(* forward, model.eval() and model.train().                                *)
(***************************************************************************)
Compounds == {"A", "B"}
\* An element slot <<index, frac numerator>>: padding, elements 1 and 2 at
\* 1/2 and 1, and index 0 with a nonzero fraction.
ElemSlots == {<<0, 0>>, <<1, 1>>, <<2, 1>>, <<1, 2>>, <<0, 1>>}
\* The element slots of the second compound of a batch.
ElemSlotsB == {<<0, 0>>, <<1, 1>>, <<2, 1>>}
\* The element slots of the first compound of a batch called repeatedly.
ElemSlotsPair == {<<0, 0>>, <<1, 1>>}
CatVals == {0, 1}
CatValsB == {0}
BoolVals == {0, 1}
NumVals == {5}
\* <<n_cat, n_bool, n_num>>
StructShapes == {<<0, 0, 0>>, <<1, 1, 1>>}

CompoundInputs(ne, st, E, C) ==
    {[src |-> [j \in 1 .. ne |-> e[j][1]], frac |-> [j \in 1 .. ne |-> e[j][2]],
      cat_feat |-> c, bool_src |-> bl, float_feat |-> f] :
        e \in [1 .. ne -> E], c \in [1 .. st[1] -> C],
        bl \in [1 .. st[2] -> BoolVals], f \in [1 .. st[3] -> NumVals]}

\* The inputs that differ from c in one element slot or one boolean.
Variants(c) ==
    {[c EXCEPT !.src[j] = e[1], !.frac[j] = e[2]] :
        j \in 1 .. Len(c.src), e \in ElemSlotsB}
    \cup {[c EXCEPT !.bool_src[j] = v] : j \in 1 .. Len(c.bool_src), v \in BoolVals}

NoRows == [b \in {} |-> 0]

Batches(EA, CA, EB, CB) ==
    UNION {[A : CompoundInputs(ne, st, EA, CA), B : CompoundInputs(ne, st, EB, CB)] :
              ne \in 1 .. MaxElems, st \in StructShapes}

\* CrabNet() and a batch of two compounds.
CrabInit ==
    /\ out_dims = DefaultOutDims
    /\ training = TRUE
    /\ batch \in Batches(ElemSlots, CatVals, ElemSlotsB, CatValsB)
    /\ res = NotRun
    /\ prev_output = NoRows
    /\ prev_call = NoCall

\* CrabNet() and a batch of two compounds of fewer kinds.
PairInit ==
    /\ out_dims = DefaultOutDims
    /\ training = TRUE
    /\ batch \in Batches(ElemSlotsPair, CatValsB, ElemSlotsB, CatValsB)
    /\ res = NotRun
    /\ prev_output = NoRows
    /\ prev_call = NoCall

\* CrabNet(out_dims=..) and a batch of two compounds of fewer kinds.
DimsInit ==
    /\ out_dims \in 1 .. MaxOutDims
    /\ training = TRUE
    /\ batch \in Batches(ElemSlotsB, CatValsB, {<<1, 1>>}, CatValsB)
    /\ res = NotRun
    /\ prev_output = NoRows
    /\ prev_call = NoCall

CallOf(r) == [called |-> TRUE, mode |-> r.mode, noise |-> r.noise]

Noises == IF DropoutActive(training) THEN DropMasks ELSE {NoNoise}

\* output = model(src, frac, cat_feat, bool_src, float_feat)
Forward ==
    /\ \E noise \in Noises : res' = CrabForward(batch, out_dims, training, noise)
    /\ prev_output' = IF res.called THEN OutputRows(res) ELSE NoRows
    /\ prev_call' = IF res.called THEN CallOf(res) ELSE NoCall
    /\ UNCHANGED <<out_dims, training, batch>>

\* The first call.
ForwardOnce == ~res.called /\ Forward

\* The caller changes one entry of compound B's inputs and calls again.
ForwardPerturbed ==
    /\ res.called
    /\ \E new \in Variants(batch["B"]) \ {batch["B"]} :
           /\ batch' = [batch EXCEPT !["B"] = new]
           /\ \E noise \in Noises :
                  res' = CrabForward(batch', out_dims, training, noise)
    /\ prev_output' = [b \in (DOMAIN OutputRows(res)) \ {"B"} |-> OutputRows(res)[b]]
    /\ prev_call' = CallOf(res)
    /\ UNCHANGED <<out_dims, training>>

\* model.eval()
Eval ==
    /\ training
    /\ training' = FALSE
    /\ UNCHANGED <<out_dims, batch, res, prev_output, prev_call>>

\* model.train()
Train ==
    /\ ~training
    /\ training' = TRUE
    /\ UNCHANGED <<out_dims, batch, res, prev_output, prev_call>>

CrabIdle ==
    /\ out_dims = DefaultOutDims
    /\ training = TRUE
    /\ batch = NoRows
    /\ res = NotRun
    /\ prev_output = NoRows
    /\ prev_call = NoCall

others == <<fe_vars, robo_vars>>

(***************************************************************************)
(* Spec: a model as constructed, put in either mode, called once.          *)
(***************************************************************************)
InitAll == CrabInit /\ FracIdle /\ RoboIdle
CallOnce == ForwardOnce /\ UNCHANGED others
SetEval == Eval /\ UNCHANGED others
SetTrain == Train /\ UNCHANGED others
Next == CallOnce \/ SetEval \/ SetTrain
Spec == InitAll /\ [][Next]_vars

(***************************************************************************)
(* SpecCalls: a model called again and again, on the same batch or with    *)
(* compound B's inputs changed, in either mode.                            *)
(***************************************************************************)
PairInitAll == PairInit /\ FracIdle /\ RoboIdle
Call == Forward /\ UNCHANGED others
CallPerturbed == ForwardPerturbed /\ UNCHANGED others
CallsNext == Call \/ CallPerturbed \/ SetEval
SpecCalls == PairInitAll /\ [][CallsNext]_vars

(***************************************************************************)
(* SpecDims: a model constructed with any out_dims, called once.           *)
(***************************************************************************)
DimsInitAll == DimsInit /\ FracIdle /\ RoboIdle
DimsNext == CallOnce \/ SetEval \/ SetTrain
SpecDims == DimsInitAll /\ [][DimsNext]_vars

(***************************************************************************)
(* SpecFrac: one FractionalEncoder, constructed with any resolution and    *)
(* mode, called once on any input.                                         *)
(***************************************************************************)
FracInitAll == FracInit /\ RoboIdle /\ CrabIdle
FracCall == FracForward /\ UNCHANGED <<robo_vars, crab_vars>>
FracNext == FracCall
SpecFrac == FracInitAll /\ [][FracNext]_vars

(***************************************************************************)
(* SpecRobo: one call of robofeaturize on any list of CIF strings.         *)
(***************************************************************************)
RoboInitAll == RoboInit /\ FracIdle /\ CrabIdle
RoboLoop == RoboIter /\ UNCHANGED <<fe_vars, crab_vars>>
RoboDone == RoboReturn /\ UNCHANGED <<fe_vars, crab_vars>>
RoboNext == RoboLoop \/ RoboDone
SpecRobo == RoboInitAll /\ [][RoboNext]_vars

(***************************************************************************)
(* Claims about CrabNet.forward and Encoder.forward.                       *)
(***************************************************************************)
Called == res.called
RowsOf == IF Called THEN DOMAIN res.rows ELSE {}
Slots(b) == 1 .. Len(res.rows[b].mask)
Present(b) == {k \in Slots(b) : ~res.rows[b].mask[k].v}
\* The extended fractional weights of compound b, from the caller's frac.
WeightsOf(b) ==
    ExtendFrac(batch[b].frac, FracDen,
               Len(batch[b].cat_feat) + Len(batch[b].bool_src) + Len(batch[b].float_feat))

\* C1: in CrabNet.forward the head's row of every slot the combined mask
\* marks absent is zero before the sum, the denominator is the number of
\* slots not marked absent, and the result is the sum of the rows of the
\* present slots divided by their number.
C1_MaskedAverage ==
    \A b \in RowsOf :
        LET r == res.rows[b]
        IN  /\ \A k \in Slots(b) : r.mask[k].v => r.masked[k] = ZeroOut
            /\ \A k \in Present(b) : r.masked[k] = [t |-> "output_nn", slot |-> k]
            /\ r.denom = Cardinality(Present(b))
            /\ IF Present(b) = {} THEN r.avg = NanOut
               ELSE /\ r.avg.t = "div"
                    /\ r.avg.den = Cardinality(Present(b))
                    /\ Len(r.avg.terms) = Cardinality(Present(b))
                    /\ \A i \in 1 .. Len(r.avg.terms) :
                           /\ r.avg.terms[i].slot \in Present(b)
                           /\ i > 1 => r.avg.terms[i - 1].slot < r.avg.terms[i].slot

\* C1 witness: a call on a compound with absent and present slots.
C1_Witness ==
    /\ Called
    /\ \E b \in RowsOf : Present(b) # {} /\ Present(b) # Slots(b)
                         /\ Cardinality(Present(b)) > 1

\* The slot at position k of the sequence for ne element slots and nc, nb,
\* nn categorical, boolean and numeric ones.
SlotAt(k, ne, nc, nb) ==
    IF k <= ne THEN <<"elem", k>>
    ELSE IF k <= ne + nc THEN <<"cat", k - ne>>
    ELSE IF k <= ne + nc + nb THEN <<"bool", k - ne - nc>>
    ELSE <<"num", k - ne - nc - nb>>

\* C2: the combined mask marks a slot absent exactly when it is an element
\* slot of index 0 or a boolean slot of value 0, and position k of the mask
\* is the slot at position k of the Embedder's sequence, in the order
\* elemental, categorical, boolean, numeric.
C2_MaskOrder ==
    \A b \in RowsOf :
        LET r == res.rows[b]
            c == batch[b]
        IN  /\ Len(r.mask) = Len(r.slots)
            /\ Len(r.mask) = Len(c.src) + Len(c.cat_feat) + Len(c.bool_src)
                                 + Len(c.float_feat)
            /\ \A k \in Slots(b) :
                   /\ r.mask[k].slot = r.slots[k]
                   /\ r.slots[k] = SlotAt(k, Len(c.src), Len(c.cat_feat), Len(c.bool_src))
                   /\ r.mask[k].v <=>
                          \/ r.slots[k][1] = "elem" /\ c.src[r.slots[k][2]] = 0
                          \/ r.slots[k][1] = "bool" /\ c.bool_src[r.slots[k][2]] = 0

\* C2 witness: a call on a compound with a padded element slot, a present
\* one, a categorical slot and a boolean slot of value 0.
C2_Witness ==
    /\ Called
    /\ \E b \in RowsOf :
           /\ Len(batch[b].cat_feat) > 0
           /\ \E j \in 1 .. Len(batch[b].bool_src) : batch[b].bool_src[j] = 0
           /\ \E j \in 1 .. Len(batch[b].src) : batch[b].src[j] = 0
           /\ \E j \in 1 .. Len(batch[b].src) : batch[b].src[j] # 0

\* C3 as stated: in Encoder.forward a slot is masked as a key (src_mask) and
\* zeroed in the result (hmask) exactly when its extended fractional weight
\* is zero, for every input.
C3_AbsentIffZeroWeight ==
    \A b \in RowsOf : \A k \in Slots(b) :
        /\ res.rows[b].src_mask[k] <=> (WeightsOf(b)[k].n = 0)
        /\ (res.rows[b].hmask[k] = 0) <=> (WeightsOf(b)[k].n = 0)
        /\ (res.rows[b].enc[k] = ZeroVec) <=> (WeightsOf(b)[k].n = 0)

\* C10 as stated: every slot the combined mask of CrabNet marks absent is
\* masked as a key and zeroed by Encoder.forward.
C10_AbsentAgree ==
    \A b \in RowsOf : \A k \in Slots(b) :
        res.rows[b].mask[k].v =>
            /\ res.rows[b].src_mask[k]
            /\ res.rows[b].enc[k] = ZeroVec

\* C10 amended: every slot whose extended fractional weight is 0, so every
\* padded element slot (index 0, fraction 0) that CrabNet marks absent, is
\* masked as a key and zeroed by Encoder.forward, and the keys are the
\* slots not masked; a boolean slot of value 0, which CrabNet marks absent
\* too, has the weight 1 / nrobo_feat and is masked and zeroed only when the
\* weight of slot 0 is 0.
C10_ZeroWeightExcluded ==
    \A b \in RowsOf :
        LET r == res.rows[b]
            w == WeightsOf(b)
        IN  /\ Len(r.keys) = Cardinality({k \in Slots(b) : ~r.src_mask[k]})
            /\ \A k \in Slots(b) :
                   /\ w[k].n = 0 => (r.src_mask[k] /\ r.hmask[k] = 0 /\ r.enc[k] = ZeroVec)
                   /\ (r.mask[k].v /\ r.slots[k][1] = "elem"
                          /\ batch[b].frac[r.slots[k][2]] = 0)
                        => (r.src_mask[k] /\ r.enc[k] = ZeroVec)
                   /\ r.slots[k][1] = "bool" =>
                          /\ w[k].n # 0
                          /\ r.src_mask[k] <=> (w[1].n = 0)
                          /\ (r.enc[k] = ZeroVec) <=> (w[1].n = 0)

\* C10 witness: a call on a compound with a padded element slot that is
\* masked and a boolean slot of value 0 that is a key.
C10_Witness ==
    /\ Called
    /\ \E b \in RowsOf : \E k, l \in Slots(b) :
           /\ res.rows[b].slots[k][1] = "bool"
           /\ res.rows[b].mask[k].v /\ ~res.rows[b].src_mask[k]
           /\ res.rows[b].slots[l][1] = "elem"
           /\ res.rows[b].mask[l].v /\ res.rows[b].src_mask[l]

\* Every element slot of compound b has index 0 and every boolean slot
\* value 0 in the caller's inputs.
NoElemNoBool(b) ==
    /\ \A j \in 1 .. Len(batch[b].src) : batch[b].src[j] = 0
    /\ \A j \in 1 .. Len(batch[b].bool_src) : batch[b].bool_src[j] = 0

\* The number of categorical and numeric slots of compound b.
NCatNum(b) == Len(batch[b].cat_feat) + Len(batch[b].float_feat)

\* C11: in CrabNet.forward the denominator of a compound is 0 exactly when
\* every slot of the compound is marked absent, that is when it has no
\* element slot of index other than 0, no boolean slot of value other than
\* 0 and no categorical or numeric slot; the denominator is at least
\* n_cat + n_num, so with n_cat + n_num >= 1 the division is by a number
\* other than 0 for every input.
C11_DenominatorZero ==
    \A b \in RowsOf :
        LET r == res.rows[b]
        IN  /\ (r.denom = 0) <=> (\A k \in Slots(b) : r.mask[k].v)
            /\ (r.denom = 0) <=> (NoElemNoBool(b) /\ NCatNum(b) = 0)
            /\ r.denom >= NCatNum(b)
            /\ (r.avg = NanOut) <=> (r.denom = 0)
            /\ NCatNum(b) >= 1 => (r.denom # 0 /\ r.avg.t = "div"
                                       /\ r.avg.den >= NCatNum(b))

\* C11 witness: a call on a compound that has no present element slot and
\* no present boolean slot but categorical and numeric slots, one of value
\* 0: the denominator is n_cat + n_num.
C11_Witness ==
    /\ Called
    /\ \E b \in RowsOf :
           /\ NoElemNoBool(b) /\ Len(batch[b].bool_src) > 0
           /\ \E j \in 1 .. Len(batch[b].cat_feat) : batch[b].cat_feat[j] = 0
           /\ res.rows[b].denom = NCatNum(b) /\ NCatNum(b) >= 1

C7_RowsIndependent ==
    (Called /\ DOMAIN prev_output = {"A"} /\ res.noise = prev_call.noise)
        => OutputRows(res)["A"] = prev_output["A"]

\* C7 witness: a call in training mode after B's inputs were changed, with
\* the dropout draw of the call before, A having keys to attend to.
C7_Witness ==
    /\ Called /\ DOMAIN prev_output = {"A"}
    /\ res.mode /\ res.noise = prev_call.noise
    /\ Len(res.rows["A"].keys) > 1

\* C8 as stated: the averaged output is split in two halves of equal size,
\* every value column is multiplied by the sigmoid of its own logit column,
\* and the result has shape (batch, out_dims / 2).
C8_EqualHalves ==
    Called =>
        /\ res.error = ""
        /\ 2 * Len(res.cols) = out_dims
        /\ \A c \in 1 .. Len(res.cols) :
               res.cols[c].val = c /\ res.cols[c].logit = Len(res.cols) + c
        /\ res.shape = <<Cardinality(DOMAIN batch), Len(res.cols)>>

\* C8 amended: for out_dims >= 2 the averaged output is split in a value
\* part of ceil(out_dims / 2) columns and a logit part of the other
\* floor(out_dims / 2); value column c is multiplied by the sigmoid of
\* logit column ceil(out_dims / 2) + c where there is one and by 1 where
\* there is none, and the result has shape (batch, ceil(out_dims / 2)); the
\* parts are equal exactly when out_dims is even.  For out_dims = 1 the
\* unpacking of the chunks raises ValueError.
C8_SplitColumns ==
    Called =>
        IF out_dims < 2 THEN res.error = "ValueError"
        ELSE LET nval == CeilDiv(out_dims, 2)
                 nlog == out_dims - nval
             IN  /\ res.error = ""
                 /\ Len(res.cols) = nval
                 /\ res.shape = <<Cardinality(DOMAIN batch), nval>>
                 /\ \A c \in 1 .. nval :
                        /\ res.cols[c].val = c
                        /\ res.cols[c].logit = IF c <= nlog THEN nval + c ELSE 0
                 /\ (nval = nlog) <=> (out_dims % 2 = 0)

\* C8 witness: a call of a model with the default out_dims.
C8_Witness == Called /\ out_dims = DefaultOutDims /\ res.error = ""

(***************************************************************************)
(* Claims about FractionalEncoder.forward (SpecFrac).                      *)
(***************************************************************************)
FeCalled == fe_out.t # "none"
FeScaled == TimesRes(fe_x, fe_resolution)          \* x * R of the input
FePositive == FeScaled.n > 0                        \* 0 < x
FeAtMostOne == FeScaled.n <= fe_resolution * FeScaled.d   \* x <= 1
FeBelowFloor == FeScaled.n < FeScaled.d             \* x < 1 / R
FeIntegral == FeScaled.n % FeScaled.d = 0           \* x * R is an integer
\* m is the integer nearest to n / d, the even one of two at a tie.
NearestEven(m, n, d) ==
    /\ 2 * Abs(n - m * d) <= d
    /\ (2 * Abs(n - m * d) = d) => (m % 2 = 0)

\* C4 as stated: for 0 < x <= 1 in non-log mode the row returned is the
\* one with index ceil(x * R) - 1.
C4_CeilRow ==
    (FeCalled /\ ~fe_log10 /\ FePositive /\ FeAtMostOne) =>
        /\ fe_out.t = "row"
        /\ fe_out.row = CeilDiv(FeScaled.n, FeScaled.d) - 1

\* C4 amended: for 0 < x <= 1 in non-log mode the row returned has index
\* round(max(x * R, 1)) - 1, round being to the nearest integer with
\* halves to the even one; that is ceil(x * R) - 1 when x * R is an
\* integer or x < 1 / R.
C4_RoundRow ==
    (FeCalled /\ ~fe_log10 /\ FePositive /\ FeAtMostOne) =>
        /\ fe_out.t = "row"
        /\ fe_out.row = fe_out.idx
        /\ IF FeBelowFloor THEN fe_out.row = 0
           ELSE NearestEven(fe_out.row + 1, FeScaled.n, FeScaled.d)
        /\ (FeIntegral \/ FeBelowFloor) =>
               fe_out.row = CeilDiv(FeScaled.n, FeScaled.d) - 1

\* C4 witness: a call in non-log mode with x * R = k + 1/4, 1 < x * R < R.
C4_Witness ==
    /\ FeCalled /\ ~fe_log10 /\ FeAtMostOne
    /\ fe_x.t = "quarter" /\ fe_x.v > 4 /\ fe_x.v % 4 = 1

\* 1 / R as an input of log mode, where R is a power of two.
IsPow2(R) == \E e \in 0 .. MaxExp : Pow2(e) = R
Log2Of(R) == CHOOSE e \in 0 .. MaxExp : Pow2(e) = R
FloorInput(R, log10) ==
    IF log10 THEN [t |-> "pow2", v |-> -Log2Of(R)] ELSE [t |-> "quarter", v |-> 4]

\* C5 as stated: for any input, in both modes, the index lies in [0, R)
\* and the lookup is in bounds; every x < 1 / R selects the row of 1 / R.
C5_AnyInBounds ==
    FeCalled =>
        /\ fe_out.t = "row"
        /\ 0 <= fe_out.idx /\ fe_out.idx < fe_resolution
        /\ (FeBelowFloor /\ (fe_log10 => IsPow2(fe_resolution))) =>
               \A i \in FracIdx(FloorInput(fe_resolution, fe_log10),
                                 fe_resolution, fe_log10) :
                   fe_out = Lookup(i, fe_resolution)

\* C5 amended: in non-log mode for every x <= 1 (x = 0 and x < 0
\* included), and in log mode for every x >= 0, the index lies in [0, R)
\* and the lookup is in bounds; in non-log mode every x < 1 / R selects
\* row 0, the row of x = 1 / R.
C5_InBounds ==
    (FeCalled /\ (IF fe_log10 THEN ~IsNegative(fe_x) ELSE FeAtMostOne)) =>
        /\ fe_out.t = "row"
        /\ 0 <= fe_out.idx /\ fe_out.idx < fe_resolution
        /\ (~fe_log10 /\ FeBelowFloor) =>
               /\ fe_out.row = 0
               /\ \A i \in FracIdx(FloorInput(fe_resolution, FALSE),
                                    fe_resolution, FALSE) :
                      fe_out = Lookup(i, fe_resolution)

\* C5 witness: a call in non-log mode on a negative x.
C5_Witness == FeCalled /\ ~fe_log10 /\ IsNegative(fe_x) /\ fe_out.t = "row"

(***************************************************************************)
(* Claims about robofeaturize (SpecRobo).                                  *)
(***************************************************************************)
\* C9 as stated: robofeaturize never raises; it returns a list as long as
\* its argument, in the same order, with ['failed'] for every record that
\* fails in parsing or in feature extraction.
C9_NeverRaises ==
    /\ robo_pc # "raised"
    /\ robo_pc = "returned" =>
           /\ Len(features) = Len(cifstr_list)
           /\ \A k \in 1 .. Len(cifstr_list) :
                  features[k] = IF cifstr_list[k] = "ok" THEN Featurized ELSE Failed

====
